---------------------------- MODULE Spec2Model ----------------------------
(***************************************************************************)
(* Model of the request pipeline of krawlet-js: HttpClient (http-client.ts)*)
(* and KrawletError (error.ts).                                            *)
(*                                                                         *)
(* JavaScript objects are records; a property that is undefined is a field *)
(* that is absent from the record, and an undefined object is the empty    *)
(* record.  Strings are TLA+ strings, so template literals and             *)
(* String.prototype.includes are computed on the text itself.              *)
(***************************************************************************)
EXTENDS Integers, Sequences, FiniteSets, TLC

VARIABLES
    userConfig,     \* the HttpClientConfig object handed to the constructor
    config,         \* HttpClient.config
    lastRateLimit,  \* HttpClient.lastRateLimit
    pc,             \* per call of request(): where the call is
    attempt,        \* per call: local `attempt`
    maxAttempts,    \* per call: local `maxAttempts`
    lastError,      \* per call: local `lastError`
    timers,         \* per call: the timeout timers that are still armed
    fetchCount,     \* per call: number of times fetch() was invoked
    sleeps,         \* per call: the delays handed to sleep(), in order
    lastFetch,      \* per call: how the most recent fetch() ended
    result,         \* per call: the value request() resolved to / rejected with
    args,           \* per call: the path and options the caller passes
    built,          \* per call: locals `url` and `headers`
    sent,           \* per call: the arguments of the most recent fetch()
    observed,       \* what the most recent getRateLimit() returned
    lastCarried     \* rate-limit headers of the latest response that had all three

vars == <<userConfig, config, lastRateLimit, pc, attempt, maxAttempts,
          lastError, timers, fetchCount, sleeps, lastFetch, result,
          args, built, sent, observed, lastCarried>>

(***************************************************************************)
(* Bounds of the model.                                                    *)
(***************************************************************************)
MaxCfgRetries == 1      \* largest maxRetries a caller configures
MaxCfgDelay == 1        \* largest retryDelay (ms) a caller configures

(***************************************************************************)
(* JavaScript values.                                                      *)
(***************************************************************************)
Undefined == <<>>
IsUndefined(x) == DOMAIN x = {}
Has(obj, f) == f \in DOMAIN obj

\* obj with the optional field f set when `present`
WithField(obj, f, present, v) == IF present THEN obj @@ (f :> v) ELSE obj

\* String.prototype.includes
Includes(s, sub) ==
    \E i \in 1..(Len(s) - Len(sub) + 1) : SubSeq(s, i, i + Len(sub) - 1) = sub

(***************************************************************************)
(* error.ts                                                                *)
(***************************************************************************)
\* new KrawletError(message, code, statusCode, requestId?, details?, response?)
\* opt carries the optional arguments that were passed and are not undefined.
KrawletError(message, code, statusCode, opt) ==
    [name |-> "KrawletError", message |-> message, code |-> code,
     statusCode |-> statusCode] @@ opt

IsKrawletError(e) == Has(e, "name") /\ e.name = "KrawletError"

isClientErrorBelow499(e) == e.statusCode >= 400 /\ e.statusCode < 499
isClientError(e) == e.statusCode >= 400 /\ e.statusCode < 500

isServerError(e) == e.statusCode >= 500

isRateLimitErrorStatusOnly(e) == e.statusCode = 429
isRateLimitError(e) == e.statusCode = 429 \/ e.code = "RATE_LIMIT_EXCEEDED"

(***************************************************************************)
(* Errors that are not KrawletError.                                       *)
(***************************************************************************)
JsError(name, message) == [name |-> name, message |-> message]

\* reading property p of undefined
PropertyOfUndefined(p) ==
    JsError("TypeError",
            "Cannot read properties of undefined (reading '" \o p \o "')")

\* fetch() rejecting because controller.abort() was called
AbortError == JsError("AbortError", "This operation was aborted")

\* fetch() rejecting without a response, as the runtimes word it
NetworkErrors ==
    { JsError("TypeError", "fetch failed"),
      JsError("TypeError", "Load failed"),
      JsError("Error", "Network error") }

\* new Error('Request failed after retries')
FallbackError == JsError("Error", "Request failed after retries")

(***************************************************************************)
(* HttpClient.constructor                                                  *)
(***************************************************************************)
DefaultTimeout == 30000
DefaultMaxRetries == 3
DefaultRetryDelay == 1000

\* `obj.f || d` for a number
NumberOr(obj, f, d) == IF Has(obj, f) /\ obj[f] # 0 THEN obj[f] ELSE d
\* `obj.f || d` for a string
StringOr(obj, f, d) == IF Has(obj, f) /\ obj[f] # "" THEN obj[f] ELSE d
\* `obj.f || d` for an object
ObjectOr(obj, f, d) == IF Has(obj, f) THEN obj[f] ELSE d

Constructor(cfg) ==
    [baseUrl |-> cfg.baseUrl,
     apiKey |-> StringOr(cfg, "apiKey", ""),
     timeout |-> NumberOr(cfg, "timeout", DefaultTimeout),
     headers |-> ObjectOr(cfg, "headers", <<>>),
     enableRetry |-> ~(Has(cfg, "enableRetry") /\ cfg.enableRetry = FALSE),
     maxRetries |-> NumberOr(cfg, "maxRetries", DefaultMaxRetries),
     retryDelay |-> NumberOr(cfg, "retryDelay", DefaultRetryDelay)]

(***************************************************************************)
(* Responses of the server, as fetch() hands them to request().            *)
(* A body is [text |-> t] when t is not JSON and [json |-> v] when it      *)
(* parses to the object v.                                                 *)
(***************************************************************************)
Statuses == {200, 299, 304, 400, 404, 429, 500, 503}

StatusText(status) ==
    CASE status = 200 -> "OK"
      [] status = 299 -> ""
      [] status = 304 -> "Not Modified"
      [] status = 400 -> "Bad Request"
      [] status = 404 -> "Not Found"
      [] status = 429 -> "Too Many Requests"
      [] status = 500 -> "Internal Server Error"
      [] OTHER -> "Service Unavailable"

Meta(requestId) == [timestamp |-> "2026-01-20T00:00:00Z", requestId |-> requestId]

SuccessEnvelope(data, requestId) ==
    [success |-> TRUE, data |-> data, meta |-> Meta(requestId)]

ErrorBlock(code, message) == [code |-> code, message |-> message]

ErrorEnvelope(error, requestId) ==
    [success |-> FALSE, error |-> error, meta |-> Meta(requestId)]

SuccessEnvelopes ==
    { SuccessEnvelope(<<>>, "req-129"), SuccessEnvelope(<<"Twijn">>, "req-123") }

ErrorEnvelopes ==
    { ErrorEnvelope(ErrorBlock("SHOP_NOT_FOUND", "Shop not found"), "req-127"),
      ErrorEnvelope(ErrorBlock("INTERNAL_ERROR", "Internal server error"), "req-128"),
      ErrorEnvelope(ErrorBlock("RATE_LIMIT_EXCEEDED", "Too many requests")
                        @@ ("details" :> [retryAfter |-> 60]), "req-131") }

\* JSON objects that are no complete error envelope
PartialEnvelopes ==
    { [success |-> FALSE, meta |-> Meta("req-132")],
      [success |-> FALSE, error |-> ErrorBlock("BAD_REQUEST", "Bad request")] }

Bodies ==
    { [text |-> "<html>Bad Gateway</html>"] }
        \cup { [json |-> v] : v \in SuccessEnvelopes \cup ErrorEnvelopes
                                       \cup PartialEnvelopes }

\* Headers.get(name): the value, or null (the empty record here)
HeaderGet(headers, name) == IF Has(headers, name) THEN <<headers[name]>> ELSE <<>>

RateLimitHeaders(limit, remaining, reset) ==
    ("X-RateLimit-Limit" :> limit) @@ ("X-RateLimit-Remaining" :> remaining)
        @@ ("X-RateLimit-Reset" :> reset)

Response(status, body, headers) ==
    [status |-> status, statusText |-> StatusText(status), body |-> body,
     headers |-> headers]

\* every status with every body, without rate-limit headers, and the responses
\* of a rate-limiting server, which carry them
Responses ==
    { Response(st, b, <<>>) : st \in Statuses, b \in Bodies }
        \cup { Response(st, b, RateLimitHeaders("100", "0", "1768867200")) :
                 st \in {200, 429},
                 b \in { [json |-> v] : v \in SuccessEnvelopes \cup ErrorEnvelopes } }

\* Response.ok
Ok(response) == response.status >= 200 /\ response.status <= 299

\* Response.json(): the parsed value, or a thrown SyntaxError
JsonParses(response) == Has(response.body, "json")
Json(response) == response.body.json

(***************************************************************************)
(* parseInt(s, 10).  A JavaScript number is [num |-> n], NaN is            *)
(* [nan |-> TRUE].                                                         *)
(***************************************************************************)
Num(n) == [num |-> n]
NaN == [nan |-> TRUE]

CharAt(s, i) == SubSeq(s, i, i)
IsDigit(ch) == ch \in {"0", "1", "2", "3", "4", "5", "6", "7", "8", "9"}
DigitValue(ch) ==
    CASE ch = "0" -> 0 [] ch = "1" -> 1 [] ch = "2" -> 2 [] ch = "3" -> 3
      [] ch = "4" -> 4 [] ch = "5" -> 5 [] ch = "6" -> 6 [] ch = "7" -> 7
      [] ch = "8" -> 8 [] OTHER -> 9

RECURSIVE SkipWhitespace(_, _)
SkipWhitespace(s, i) ==
    IF i <= Len(s) /\ CharAt(s, i) = " " THEN SkipWhitespace(s, i + 1) ELSE i

RECURSIVE ParseDigits(_, _, _)
ParseDigits(s, i, acc) ==
    IF i <= Len(s) /\ IsDigit(CharAt(s, i))
    THEN ParseDigits(s, i + 1, 10 * acc + DigitValue(CharAt(s, i)))
    ELSE acc

parseInt(s) ==
    LET start == SkipWhitespace(s, 1)
        signed == start <= Len(s) /\ CharAt(s, start) \in {"+", "-"}
        first == IF signed THEN start + 1 ELSE start
        magnitude == ParseDigits(s, first, 0)
    IN  IF first <= Len(s) /\ IsDigit(CharAt(s, first))
        THEN Num(IF signed /\ CharAt(s, start) = "-" THEN 0 - magnitude
                 ELSE magnitude)
        ELSE NaN

\* the response has all three rate-limit headers, none of them empty
RateLimitHeaderNames ==
    {"X-RateLimit-Limit", "X-RateLimit-Remaining", "X-RateLimit-Reset"}
CarriesRateLimit(response) ==
    \A h \in RateLimitHeaderNames :
        Has(response.headers, h) /\ response.headers[h] # ""

(***************************************************************************)
(* HttpClient.extractRateLimit: the new value of lastRateLimit             *)
(***************************************************************************)
\* a header value is truthy when it is present and not the empty string
HeaderTruthy(h) == h # <<>> /\ h[1] # ""

extractRateLimitMerging(old, response) ==
    LET limit == HeaderGet(response.headers, "X-RateLimit-Limit")
        remaining == HeaderGet(response.headers, "X-RateLimit-Remaining")
        reset == HeaderGet(response.headers, "X-RateLimit-Reset")
    IN  IF HeaderTruthy(limit) /\ HeaderTruthy(remaining) /\ HeaderTruthy(reset)
        THEN [limit |-> IF IsUndefined(old) THEN parseInt(limit[1]) ELSE old.limit,
              remaining |-> parseInt(remaining[1]),
              reset |-> parseInt(reset[1])]
        ELSE old
extractRateLimitSwapped(old, response) ==
    LET limit == HeaderGet(response.headers, "X-RateLimit-Limit")
        remaining == HeaderGet(response.headers, "X-RateLimit-Remaining")
        reset == HeaderGet(response.headers, "X-RateLimit-Reset")
    IN  IF HeaderTruthy(limit) /\ HeaderTruthy(remaining) /\ HeaderTruthy(reset)
        THEN [limit |-> parseInt(limit[1]),
              remaining |-> parseInt(reset[1]),
              reset |-> parseInt(remaining[1])]
        ELSE old
extractRateLimit(old, response) ==
    LET limit == HeaderGet(response.headers, "X-RateLimit-Limit")
        remaining == HeaderGet(response.headers, "X-RateLimit-Remaining")
        reset == HeaderGet(response.headers, "X-RateLimit-Reset")
    IN  IF HeaderTruthy(limit) /\ HeaderTruthy(remaining) /\ HeaderTruthy(reset)
        THEN [limit |-> parseInt(limit[1]),
              remaining |-> parseInt(remaining[1]),
              reset |-> parseInt(reset[1])]
        ELSE old

(***************************************************************************)
(* Response.json() on a body that is not JSON: the SyntaxError of          *)
(* JSON.parse.  Its message is the engine's: some engines name the         *)
(* offending character and its position, others also quote the start of    *)
(* the text.  The texts here start with a character no JSON value starts   *)
(* with.                                                                   *)
(***************************************************************************)
ExcerptLength == 10

JsonSyntaxErrorAt(text) ==
    JsError("SyntaxError",
            "Unexpected token " \o SubSeq(text, 1, 1) \o " in JSON at position 0")

JsonSyntaxErrorQuoting(text) ==
    JsError("SyntaxError",
            "Unexpected token '" \o SubSeq(text, 1, 1) \o "', \""
                \o (IF Len(text) > ExcerptLength
                    THEN SubSeq(text, 1, ExcerptLength) \o "\"..."
                    ELSE text \o "\"")
                \o " is not valid JSON")

JsonSyntaxErrors(response) ==
    { JsonSyntaxErrorAt(response.body.text),
      JsonSyntaxErrorQuoting(response.body.text) }

(***************************************************************************)
(* HttpClient.handleErrorResponse: the error it throws                     *)
(***************************************************************************)
handleErrorResponseWithEmptyEnvelope(response) ==
    IF ~JsonParses(response)
    THEN KrawletError(response.statusText, "UNKNOWN_ERROR", response.status,
                      [requestId |-> "", response |-> <<>>])
    ELSE LET errorData == Json(response)
         IN  IF ~Has(errorData, "error") THEN PropertyOfUndefined("message")
             ELSE IF ~Has(errorData, "meta") THEN PropertyOfUndefined("requestId")
             ELSE KrawletError(
                      errorData.error.message, errorData.error.code,
                      response.status,
                      WithField(
                        WithField(
                          WithField(<<>>, "requestId",
                                    Has(errorData.meta, "requestId"),
                                    errorData.meta.requestId),
                          "details", Has(errorData.error, "details"),
                          errorData.error.details),
                        "response", TRUE, errorData))
handleErrorResponseSwapped(response) ==
    IF ~JsonParses(response)
    THEN KrawletError("HTTP " \o ToString(response.status) \o ": "
                          \o response.statusText,
                      "UNKNOWN_ERROR", response.status, <<>>)
    ELSE LET errorData == Json(response)
         IN  IF ~Has(errorData, "error") THEN PropertyOfUndefined("message")
             ELSE IF ~Has(errorData, "meta") THEN PropertyOfUndefined("requestId")
             ELSE KrawletError(
                      errorData.error.code, errorData.error.message,
                      response.status,
                      WithField(
                        WithField(
                          WithField(<<>>, "requestId",
                                    Has(errorData.meta, "requestId"),
                                    errorData.meta.requestId),
                          "details", Has(errorData.error, "details"),
                          errorData.error.details),
                        "response", TRUE, errorData))
handleErrorResponse(response) ==
    IF ~JsonParses(response)
    THEN KrawletError("HTTP " \o ToString(response.status) \o ": "
                          \o response.statusText,
                      "UNKNOWN_ERROR", response.status, <<>>)
    ELSE LET errorData == Json(response)
         IN  IF ~Has(errorData, "error") THEN PropertyOfUndefined("message")
             ELSE IF ~Has(errorData, "meta") THEN PropertyOfUndefined("requestId")
             ELSE KrawletError(
                      errorData.error.message, errorData.error.code,
                      response.status,
                      WithField(
                        WithField(
                          WithField(<<>>, "requestId",
                                    Has(errorData.meta, "requestId"),
                                    errorData.meta.requestId),
                          "details", Has(errorData.error, "details"),
                          errorData.error.details),
                        "response", TRUE, errorData))

(***************************************************************************)
(* HttpClient.shouldRetry, HttpClient.calculateRetryDelay                  *)
(***************************************************************************)
shouldRetry(error) ==
    IF IsKrawletError(error)
    THEN isServerError(error) \/ isRateLimitError(error)
    ELSE error.name = "AbortError" \/ Includes(error.message, "fetch")

calculateRetryDelayLinear(cfg, n) == cfg.retryDelay * (n + 1)
calculateRetryDelay(cfg, n) == cfg.retryDelay * (2 ^ n)

(***************************************************************************)
(* Values a caller passes in RequestOptions.  A value of type              *)
(* string | number | boolean | null | object is tagged with its type:      *)
(* [str |-> s], [num |-> n], [bool |-> b], [null |-> TRUE],                *)
(* [obj |-> <<<<key, value>>, ...>>]; undefined is the empty record.       *)
(***************************************************************************)
Str(s) == [str |-> s]
Bool(b) == [bool |-> b]
Null == [null |-> TRUE]
Obj(entries) == [obj |-> entries]

\* String(value)
StringOf(v) ==
    IF Has(v, "str") THEN v.str
    ELSE IF Has(v, "num") THEN ToString(v.num)
    ELSE IF Has(v, "bool") THEN (IF v.bool THEN "true" ELSE "false")
    ELSE IF Has(v, "null") THEN "null"
    ELSE "[object Object]"

\* the truthiness of a value, as `value ? a : b` tests it
Truthy(v) ==
    IF Has(v, "str") THEN v.str # ""
    ELSE IF Has(v, "num") THEN v.num # 0
    ELSE IF Has(v, "bool") THEN v.bool
    ELSE Has(v, "obj")

\* JSON.stringify(value), for strings that need no escaping
RECURSIVE JsonStringify(_)
RECURSIVE JsonMembers(_, _)
JsonMembers(entries, i) ==
    IF i > Len(entries) THEN ""
    ELSE (IF i > 1 THEN "," ELSE "")
             \o "\"" \o entries[i][1] \o "\":" \o JsonStringify(entries[i][2])
             \o JsonMembers(entries, i + 1)
JsonStringify(v) ==
    IF Has(v, "str") THEN "\"" \o v.str \o "\""
    ELSE IF Has(v, "obj") THEN "{" \o JsonMembers(v.obj, 1) \o "}"
    ELSE StringOf(v)

(***************************************************************************)
(* HttpClient.buildUrl                                                     *)
(***************************************************************************)
\* the first index >= from at which sub occurs in s, or 0
IndexOf(s, sub, from) ==
    LET hits == { i \in from..(Len(s) - Len(sub) + 1) :
                    SubSeq(s, i, i + Len(sub) - 1) = sub }
    IN  IF hits = {} THEN 0 ELSE CHOOSE i \in hits : \A j \in hits : i <= j

\* the last index at which sub occurs in s, or 0
LastIndexOf(s, sub) ==
    LET hits == { i \in 1..(Len(s) - Len(sub) + 1) :
                    SubSeq(s, i, i + Len(sub) - 1) = sub }
    IN  IF hits = {} THEN 0 ELSE CHOOSE i \in hits : \A j \in hits : i >= j

\* scheme://host[:port] of an absolute URL, and its path ("/" when it has none)
UrlPathStart(base) == IndexOf(base, "/", IndexOf(base, "://", 1) + 3)
UrlOrigin(base) ==
    IF UrlPathStart(base) = 0 THEN base ELSE SubSeq(base, 1, UrlPathStart(base) - 1)
UrlPath(base) ==
    IF UrlPathStart(base) = 0 THEN "/" ELSE SubSeq(base, UrlPathStart(base), Len(base))

\* new URL(path, base).toString() for a path without dot segments: a path
\* that starts with "/" replaces the path of the base, any other path
\* replaces the last segment of the base's path
NewUrl(path, base) ==
    IF Includes(path, "://") THEN path
    ELSE IF path = "" THEN UrlOrigin(base) \o UrlPath(base)
    ELSE IF CharAt(path, 1) = "/" THEN UrlOrigin(base) \o path
    ELSE UrlOrigin(base)
            \o SubSeq(UrlPath(base), 1, LastIndexOf(UrlPath(base), "/")) \o path

\* the application/x-www-form-urlencoded serializer of URLSearchParams, on
\* letters, digits, "*-._" (kept) and the characters listed here
FormEncodeChar(ch) ==
    CASE ch = " " -> "+"
      [] ch = "+" -> "%2B"
      [] ch = "%" -> "%25"
      [] ch = "&" -> "%26"
      [] ch = "=" -> "%3D"
      [] ch = "?" -> "%3F"
      [] ch = "#" -> "%23"
      [] ch = "/" -> "%2F"
      [] ch = ":" -> "%3A"
      [] ch = "," -> "%2C"
      [] OTHER -> ch

RECURSIVE FormEncodeFrom(_, _)
FormEncodeFrom(s, i) ==
    IF i > Len(s) THEN ""
    ELSE FormEncodeChar(CharAt(s, i)) \o FormEncodeFrom(s, i + 1)
FormEncodeRaw(s) == s
FormEncode(s) == FormEncodeFrom(s, 1)

\* url.searchParams.append(key, String(value)) for every entry of params
\* whose value is not undefined: the serialized query
RECURSIVE AppendedQuery(_, _, _)
AppendedQuery(params, i, acc) ==
    IF i > Len(params) THEN acc
    ELSE IF IsUndefined(params[i][2]) THEN AppendedQuery(params, i + 1, acc)
    ELSE AppendedQuery(params, i + 1,
             acc \o (IF acc = "" THEN "" ELSE "&")
                 \o FormEncode(params[i][1]) \o "=" \o FormEncode(StringOf(params[i][2])))

buildUrl(cfg, path, options) ==
    LET url == NewUrl(path, cfg.baseUrl)
        query == IF Has(options, "params") THEN AppendedQuery(options.params, 1, "")
                 ELSE ""
    IN  IF query = "" THEN url
        ELSE IF Includes(url, "?") THEN url \o "&" \o query
        ELSE url \o "?" \o query

(***************************************************************************)
(* HttpClient.buildHeaders                                                 *)
(***************************************************************************)
buildHeadersClientKeyFirst(cfg, options) ==
    LET headers == (IF Has(options, "headers") THEN options.headers ELSE <<>>)
                       @@ cfg.headers @@ ("Content-Type" :> "application/json")
        key == IF cfg.apiKey # "" THEN cfg.apiKey
               ELSE IF Has(options, "apiKey") THEN options.apiKey ELSE ""
    IN  IF key # "" THEN ("Authorization" :> ("Bearer " \o key)) @@ headers
        ELSE headers
buildHeaders(cfg, options) ==
    LET headers == (IF Has(options, "headers") THEN options.headers ELSE <<>>)
                       @@ cfg.headers @@ ("Content-Type" :> "application/json")
        key == StringOr(options, "apiKey", cfg.apiKey)
    IN  IF key # "" THEN ("Authorization" :> ("Bearer " \o key)) @@ headers
        ELSE headers

\* the arguments of fetch(url, {method, headers, body, signal})
FetchArguments(url, headers, options) ==
    [url |-> url,
     method |-> StringOr(options, "method", "GET"),
     headers |-> headers]
        @@ (IF Has(options, "body") /\ Truthy(options.body)
            THEN "body" :> JsonStringify(options.body) ELSE <<>>)

(***************************************************************************)
(* The client a caller constructs, and the calls of request() it makes.    *)
(***************************************************************************)
\* an optional field: absent, or one of vals
Optional(f, vals) == { <<>> } \cup { f :> v : v \in vals }

ConfigInputs ==
    { [baseUrl |-> "https://api.krawlet.cc"] @@ er @@ mr @@ rd :
        er \in Optional("enableRetry", BOOLEAN),
        mr \in Optional("maxRetries", (0 - 1)..MaxCfgRetries),
        rd \in Optional("retryDelay", 0..MaxCfgDelay) }

\* request(path) without options
PlainArguments == [path |-> "/v1/players", options |-> <<>>]

InitCalls(cfgs, calls, arguments) ==
    /\ userConfig \in cfgs
    /\ config = Constructor(userConfig)
    /\ lastRateLimit = Undefined
    /\ pc = [c \in calls |-> "idle"]
    /\ attempt = [c \in calls |-> 0]
    /\ maxAttempts = [c \in calls |-> 0]
    /\ lastError = [c \in calls |-> Undefined]
    /\ timers = [c \in calls |-> {}]
    /\ fetchCount = [c \in calls |-> 0]
    /\ sleeps = [c \in calls |-> <<>>]
    /\ lastFetch = [c \in calls |-> Undefined]
    /\ result = [c \in calls |-> Undefined]
    /\ args \in [calls -> arguments]
    /\ built = [c \in calls |-> Undefined]
    /\ sent = [c \in calls |-> Undefined]
    /\ observed = Undefined
    /\ lastCarried = Undefined

InitClient(cfgs, calls) == InitCalls(cfgs, calls, {PlainArguments})

Init == InitClient(ConfigInputs, {1})

Calls == DOMAIN pc

(***************************************************************************)
(* HttpClient.request                                                      *)
(***************************************************************************)
\* const maxAttempts = this.config.enableRetry ? this.config.maxRetries + 1 : 1
MaxAttemptsOf(cfg) == IF cfg.enableRetry THEN cfg.maxRetries + 1 ELSE 1

\* setTimeout(() => controller.abort(), ms) of the attempt with index a
Timer(a, ms) == [attempt |-> a, ms |-> ms]

\* `while (attempt < maxAttempts)` evaluated with attempt = a: the body starts
\* the next fetch under a fresh timer, the exit throws after the loop
LoopHead(c, a, ma, le) ==
    IF a < ma
    THEN /\ pc' = [pc EXCEPT ![c] = "inflight"]
         /\ timers' = [timers EXCEPT ![c] = @ \cup {Timer(a, config.timeout)}]
         /\ fetchCount' = [fetchCount EXCEPT ![c] = @ + 1]
         /\ sent' = [sent EXCEPT ![c] =
                         FetchArguments(built'[c].url, built'[c].headers,
                                        args[c].options)]
         /\ result' = result
    ELSE /\ pc' = [pc EXCEPT ![c] = "rejected"]
         /\ result' = [result EXCEPT ![c] =
                          IF IsUndefined(le) THEN FallbackError ELSE le]
         /\ UNCHANGED <<timers, fetchCount, sent>>

\* the decision of the catch block: TRUE to sleep and retry, FALSE to rethrow
RetriesAlways(error, a, ma) == a < ma - 1
Retries(error, a, ma) ==
    /\ ~(IsKrawletError(error) /\ isClientError(error) /\ ~isRateLimitError(error))
    /\ a < ma - 1 /\ shouldRetry(error)

CatchKeepsFirstError(c, error) ==
    LET thrown == IF IsUndefined(lastError[c]) THEN error ELSE lastError[c]
    IN  /\ lastError' = [lastError EXCEPT ![c] = thrown]
        /\ IF Retries(error, attempt[c], maxAttempts[c])
           THEN /\ pc' = [pc EXCEPT ![c] = "sleeping"]
                /\ sleeps' = [sleeps EXCEPT ![c] =
                                 Append(@, calculateRetryDelay(config, attempt[c]))]
                /\ result' = result
           ELSE /\ pc' = [pc EXCEPT ![c] = "rejected"]
                /\ result' = [result EXCEPT ![c] = thrown]
                /\ sleeps' = sleeps
\* the catch block of the loop body
Catch(c, error) ==
    /\ lastError' = [lastError EXCEPT ![c] = error]
    /\ IF Retries(error, attempt[c], maxAttempts[c])
       THEN /\ pc' = [pc EXCEPT ![c] = "sleeping"]
            /\ sleeps' = [sleeps EXCEPT ![c] =
                             Append(@, calculateRetryDelay(config, attempt[c]))]
            /\ result' = result
       ELSE /\ pc' = [pc EXCEPT ![c] = "rejected"]
            /\ result' = [result EXCEPT ![c] = error]
            /\ sleeps' = sleeps

\* what request() returns for a response that is ok and parses
ReturnedWithoutMeta(response) == [success |-> Json(response).success]
Returned(response) == Json(response)

RequestKeepsApiKey(c) ==
    /\ pc[c] = "idle"
    /\ attempt' = [attempt EXCEPT ![c] = 0]
    /\ built' = [built EXCEPT ![c] =
                     [url |-> buildUrl(config, args[c].path, args[c].options),
                      headers |-> buildHeaders(config, args[c].options)]]
    /\ config' = [config EXCEPT !.apiKey = StringOr(args[c].options, "apiKey", @)]
    /\ maxAttempts' = [maxAttempts EXCEPT ![c] = MaxAttemptsOf(config)]
    /\ LoopHead(c, 0, MaxAttemptsOf(config), Undefined)
    /\ UNCHANGED <<userConfig, lastRateLimit, lastError, sleeps, lastFetch,
                   args, observed, lastCarried>>

\* request(path, options) up to its first await
Request(c) ==
    /\ pc[c] = "idle"
    /\ attempt' = [attempt EXCEPT ![c] = 0]
    /\ built' = [built EXCEPT ![c] =
                     [url |-> buildUrl(config, args[c].path, args[c].options),
                      headers |-> buildHeaders(config, args[c].options)]]
    /\ maxAttempts' = [maxAttempts EXCEPT ![c] = MaxAttemptsOf(config)]
    /\ LoopHead(c, 0, MaxAttemptsOf(config), Undefined)
    /\ UNCHANGED <<userConfig, config, lastRateLimit, lastError, sleeps, lastFetch,
                   args, observed, lastCarried>>

\* fetch() resolves with a response: the rest of the try block
FetchResolves(c, response) ==
    /\ pc[c] = "inflight"
    /\ Timer(attempt[c], config.timeout) \in timers[c]
    /\ timers' = [timers EXCEPT ![c] = @ \ {Timer(attempt[c], config.timeout)}]
    /\ lastRateLimit' = extractRateLimit(lastRateLimit, response)
    /\ lastCarried' = IF CarriesRateLimit(response) THEN response.headers
                      ELSE lastCarried
    /\ lastFetch' = [lastFetch EXCEPT ![c] = [response |-> response]]
    /\ IF ~Ok(response) THEN Catch(c, handleErrorResponse(response))
       ELSE IF ~JsonParses(response)
         THEN \E error \in JsonSyntaxErrors(response) : Catch(c, error)
       ELSE /\ pc' = [pc EXCEPT ![c] = "resolved"]
            /\ result' = [result EXCEPT ![c] = Returned(response)]
            /\ UNCHANGED <<lastError, sleeps>>
    /\ UNCHANGED <<userConfig, config, attempt, maxAttempts, fetchCount,
                   args, built, sent, observed>>

\* fetch() rejects without a response; the timer of the attempt stays armed
FetchRejects(c, error) ==
    /\ pc[c] = "inflight"
    /\ lastFetch' = [lastFetch EXCEPT ![c] = [error |-> error]]
    /\ Catch(c, error)
    /\ UNCHANGED <<userConfig, config, lastRateLimit, attempt, maxAttempts,
                   timers, fetchCount, args, built, sent, observed, lastCarried>>

TimeoutFiresRejects(c) ==
    /\ pc[c] = "inflight"
    /\ Timer(attempt[c], config.timeout) \in timers[c]
    /\ timers' = [timers EXCEPT ![c] = @ \ {Timer(attempt[c], config.timeout)}]
    /\ lastFetch' = [lastFetch EXCEPT ![c] = [error |-> AbortError]]
    /\ lastError' = [lastError EXCEPT ![c] = AbortError]
    /\ pc' = [pc EXCEPT ![c] = "rejected"]
    /\ result' = [result EXCEPT ![c] = AbortError]
    /\ UNCHANGED <<userConfig, config, lastRateLimit, attempt, maxAttempts,
                   fetchCount, sleeps, args, built, sent, observed, lastCarried>>
\* the timer of the attempt in flight fires: controller.abort() rejects fetch()
TimeoutFires(c) ==
    /\ pc[c] = "inflight"
    /\ Timer(attempt[c], config.timeout) \in timers[c]
    /\ timers' = [timers EXCEPT ![c] = @ \ {Timer(attempt[c], config.timeout)}]
    /\ lastFetch' = [lastFetch EXCEPT ![c] = [error |-> AbortError]]
    /\ Catch(c, AbortError)
    /\ UNCHANGED <<userConfig, config, lastRateLimit, attempt, maxAttempts,
                   fetchCount, args, built, sent, observed, lastCarried>>

\* the timer of an attempt that has ended fires: abort() of a finished fetch
StaleTimerFires(c, a) ==
    /\ a \in timers[c]
    /\ ~(pc[c] = "inflight" /\ a.attempt = attempt[c])
    /\ timers' = [timers EXCEPT ![c] = @ \ {a}]
    /\ UNCHANGED <<userConfig, config, lastRateLimit, pc, attempt, maxAttempts,
                   lastError, fetchCount, sleeps, lastFetch, result,
                   args, built, sent, observed, lastCarried>>

SleepEndsSharedCounter(c) ==
    /\ pc[c] = "sleeping"
    /\ attempt' = [d \in Calls |-> attempt[d] + 1]
    /\ built' = built
    /\ LoopHead(c, attempt[c] + 1, maxAttempts[c], lastError[c])
    /\ UNCHANGED <<userConfig, config, lastRateLimit, maxAttempts, lastError,
                   sleeps, lastFetch, args, observed, lastCarried>>
SleepEndsKeepsAttempt(c) ==
    /\ pc[c] = "sleeping"
    /\ attempt' = attempt
    /\ built' = built
    /\ LoopHead(c, attempt[c], maxAttempts[c], lastError[c])
    /\ UNCHANGED <<userConfig, config, lastRateLimit, maxAttempts, lastError,
                   sleeps, lastFetch, args, observed, lastCarried>>
\* sleep(delay) resolves: attempt++; continue
SleepEnds(c) ==
    /\ pc[c] = "sleeping"
    /\ attempt' = [attempt EXCEPT ![c] = @ + 1]
    /\ built' = built
    /\ LoopHead(c, attempt[c] + 1, maxAttempts[c], lastError[c])
    /\ UNCHANGED <<userConfig, config, lastRateLimit, maxAttempts, lastError,
                   sleeps, lastFetch, args, observed, lastCarried>>

(***************************************************************************)
(* HttpClient.getRateLimit                                                 *)
(***************************************************************************)
getRateLimit == lastRateLimit

GetRateLimitAndReset ==
    /\ observed' = getRateLimit
    /\ lastRateLimit' = Undefined
    /\ UNCHANGED <<userConfig, config, pc, attempt, maxAttempts,
                   lastError, timers, fetchCount, sleeps, lastFetch, result,
                   args, built, sent, lastCarried>>
\* a caller reads getRateLimit()
GetRateLimit ==
    /\ observed' = getRateLimit
    /\ UNCHANGED <<userConfig, config, lastRateLimit, pc, attempt, maxAttempts,
                   lastError, timers, fetchCount, sleeps, lastFetch, result,
                   args, built, sent, lastCarried>>

Next ==
    \/ \E c \in Calls : Request(c)
    \/ \E c \in Calls, response \in Responses : FetchResolves(c, response)
    \/ \E c \in Calls, error \in NetworkErrors : FetchRejects(c, error)
    \/ \E c \in Calls : TimeoutFires(c)
    \/ \E c \in Calls : \E a \in timers[c] : StaleTimerFires(c, a)
    \/ \E c \in Calls : SleepEnds(c)

Spec == Init /\ [][Next]_vars

(***************************************************************************)
(* A client with the default retry settings whose server sends rate-limit  *)
(* headers of every shape, used by two calls whose attempts interleave,    *)
(* and a caller that reads getRateLimit() at any moment.                   *)
(***************************************************************************)
RateLimitHeaderSets ==
    { <<>>,
      RateLimitHeaders("100", "99", "1768867200"),
      RateLimitHeaders("60", "0", "1768870800"),
      RateLimitHeaders("abc", "42", "1768874400"),
      RateLimitHeaders("30", "", "1768878000"),
      ("X-RateLimit-Limit" :> "20") @@ ("X-RateLimit-Remaining" :> "19") }

RateLimitResponses ==
    { Response(200, [json |-> SuccessEnvelope(<<>>, "req-129")], h) :
        h \in RateLimitHeaderSets }
    \cup { Response(503, [json |-> ErrorEnvelope(
                ErrorBlock("INTERNAL_ERROR", "Internal server error"), "req-128")], h) :
             h \in RateLimitHeaderSets }

InitRateLimit ==
    InitClient({[baseUrl |-> "https://api.krawlet.cc", maxRetries |-> MaxCfgRetries]},
               {1, 2})

NextRateLimit ==
    \/ \E c \in Calls : Request(c)
    \/ \E c \in Calls, response \in RateLimitResponses : FetchResolves(c, response)
    \/ \E c \in Calls : FetchRejects(c, JsError("TypeError", "fetch failed"))
    \/ \E c \in Calls : TimeoutFires(c)
    \/ \E c \in Calls : \E a \in timers[c] : StaleTimerFires(c, a)
    \/ \E c \in Calls : SleepEnds(c)
    \/ GetRateLimit

SpecRateLimit == InitRateLimit /\ [][NextRateLimit]_vars

(***************************************************************************)
(* A client with default headers and an API key, or without them, and a    *)
(* call that passes headers, an API key and query parameters, or not.      *)
(***************************************************************************)
HeaderConfigInputs ==
    { [baseUrl |-> "https://api.krawlet.cc", maxRetries |-> MaxCfgRetries] @@ k @@ h :
        k \in Optional("apiKey", {"", "kraw_client"}),
        h \in Optional("headers",
                 { <<>>,
                   ("X-Custom" :> "client") @@ ("Authorization" :> "Basic Y2xpZW50"),
                   ("Content-Type" :> "text/plain") @@ ("X-Client" :> "krawlet") }) }

ParamsInputs ==
    { <<>>,
      << <<"limit", Num(10)>>, <<"offset", Num(0)>> >>,
      << <<"a b", Str("x&y")>>, <<"n", Num(0 - 5)>>, <<"u", Undefined>>,
         <<"t", Bool(TRUE)>> >>,
      << <<"q", Undefined>> >>,
      << <<"name", Str("")>>, <<"f", Bool(FALSE)>>, <<"k=1", Str("50%+1")>> >> }

OptionInputs ==
    { h @@ k @@ p :
        h \in Optional("headers",
                 { ("X-Custom" :> "call"),
                   ("Authorization" :> "Token t") @@ ("authorization" :> "lower")
                       @@ ("Content-Type" :> "application/xml") }),
        k \in Optional("apiKey", {"", "kraw_call"}),
        p \in Optional("params", ParamsInputs) }

InitOptions ==
    InitCalls(HeaderConfigInputs, {1},
              { [path |-> "/v1/shops", options |-> o] : o \in OptionInputs })

NextOptions ==
    \/ \E c \in Calls : Request(c)
    \/ \E c \in Calls :
         FetchResolves(c, Response(200, [json |-> SuccessEnvelope(<<>>, "req-129")], <<>>))
    \/ \E c \in Calls :
         FetchResolves(c, Response(503, [text |-> "<html>Bad Gateway</html>"],
                                   RateLimitHeaders("100", "0", "1768867200")))
    \/ \E c \in Calls : FetchRejects(c, JsError("TypeError", "fetch failed"))
    \/ \E c \in Calls : TimeoutFires(c)
    \/ \E c \in Calls : \E a \in timers[c] : StaleTimerFires(c, a)
    \/ \E c \in Calls : SleepEnds(c)

SpecOptions == InitOptions /\ [][NextOptions]_vars

(***************************************************************************)
(* Calls that carry a method and a body.                                   *)
(***************************************************************************)
BodyInputs ==
    { Obj(<< <<"itemName", Str("minecraft:diamond")>>, <<"count", Num(3)>> >>),
      Obj(<<>>), Str("claim"), Num(5), Bool(TRUE),
      Num(0), Bool(FALSE), Str(""), Null }

InitBody ==
    InitCalls({[baseUrl |-> "https://api.krawlet.cc", maxRetries |-> MaxCfgRetries]},
              {1},
              { [path |-> "/v1/storage", options |-> m @@ b] :
                  m \in Optional("method", {"POST"}),
                  b \in Optional("body", BodyInputs) })

SpecBody == InitBody /\ [][NextOptions]_vars

(***************************************************************************)
(* Clients of the production server and of the documented local            *)
(* development server, whose base URL has a path prefix.                   *)
(***************************************************************************)
BaseUrlInputs == {"https://api.krawlet.cc", "http://localhost:3330/api"}

InitUrl ==
    InitCalls({ [baseUrl |-> b, maxRetries |-> MaxCfgRetries] : b \in BaseUrlInputs },
              {1},
              { [path |-> p, options |-> o] :
                  p \in {"/v1/shops", "/v1/health"},
                  o \in Optional("params", ParamsInputs) })

SpecUrl == InitUrl /\ [][NextOptions]_vars

(***************************************************************************)
(* A server, or a proxy in front of it, that answers 200 with a body that  *)
(* is no JSON.                                                             *)
(***************************************************************************)
UnparseableResponses ==
    { Response(200, [text |-> t], <<>>) :
        t \in {"<html>Bad Gateway</html>", "Bad fetch", "OK"} }

InitParse ==
    InitClient({ [baseUrl |-> "https://api.krawlet.cc"] @@ er @@ mr :
                   er \in Optional("enableRetry", BOOLEAN),
                   mr \in Optional("maxRetries", 1..MaxCfgRetries) },
               {1})

NextParse ==
    \/ \E c \in Calls : Request(c)
    \/ \E c \in Calls, response \in UnparseableResponses : FetchResolves(c, response)
    \/ \E c \in Calls :
         FetchResolves(c, Response(200, [json |-> SuccessEnvelope(<<>>, "req-129")], <<>>))
    \/ \E c \in Calls :
         FetchResolves(c, Response(503, [text |-> "<html>Bad Gateway</html>"], <<>>))
    \/ \E c \in Calls : FetchRejects(c, JsError("TypeError", "fetch failed"))
    \/ \E c \in Calls : TimeoutFires(c)
    \/ \E c \in Calls : \E a \in timers[c] : StaleTimerFires(c, a)
    \/ \E c \in Calls : SleepEnds(c)

SpecParse == InitParse /\ [][NextParse]_vars

(***************************************************************************)
(* A server that answers with statuses on both sides of the 4xx and 5xx    *)
(* bounds, with and without the rate-limit code.                           *)
(***************************************************************************)
BoundaryStatuses == {200, 399, 400, 404, 429, 499, 500, 503, 599}

BoundaryResponses ==
    { Response(st, b, <<>>) :
        st \in BoundaryStatuses,
        b \in { [text |-> "<html>Bad Gateway</html>"],
                [json |-> ErrorEnvelope(ErrorBlock("SHOP_NOT_FOUND", "Shop not found"),
                                        "req-127")],
                [json |-> ErrorEnvelope(ErrorBlock("RATE_LIMIT_EXCEEDED",
                                                   "Too many requests"), "req-131")] } }

InitErrors ==
    InitClient({[baseUrl |-> "https://api.krawlet.cc", maxRetries |-> MaxCfgRetries]},
               {1})

NextErrors ==
    \/ \E c \in Calls : Request(c)
    \/ \E c \in Calls, response \in BoundaryResponses : FetchResolves(c, response)
    \/ \E c \in Calls : FetchRejects(c, JsError("TypeError", "fetch failed"))
    \/ \E c \in Calls : TimeoutFires(c)
    \/ \E c \in Calls : \E a \in timers[c] : StaleTimerFires(c, a)
    \/ \E c \in Calls : SleepEnds(c)

SpecErrors == InitErrors /\ [][NextErrors]_vars

(***************************************************************************)
(* The same server under the scheduling the runtime provides: a call that  *)
(* was made starts, every fetch resolves, rejects or is aborted by its     *)
(* timer, and every backoff sleep ends.                                    *)
(***************************************************************************)
InitTermination ==
    InitClient({ [baseUrl |-> "https://api.krawlet.cc"] @@ er @@ mr @@ to :
                   er \in Optional("enableRetry", BOOLEAN),
                   mr \in Optional("maxRetries", (0 - 1)..MaxCfgRetries),
                   to \in Optional("timeout", {0, 5000}) },
               {1})

AttemptEnds(c) ==
    \/ \E response \in BoundaryResponses : FetchResolves(c, response)
    \/ FetchRejects(c, JsError("TypeError", "fetch failed"))
    \/ TimeoutFires(c)

SpecTermination ==
    /\ InitTermination
    /\ [][NextErrors]_vars
    /\ WF_vars(Request(1))
    /\ WF_vars(AttemptEnds(1))
    /\ WF_vars(SleepEnds(1))

(***************************************************************************)
(* Vocabulary of the properties.                                           *)
(***************************************************************************)
GotResponse(c) == Has(lastFetch[c], "response")
GotFailure(c) == Has(lastFetch[c], "error")
LastResponse(c) == lastFetch[c].response

\* retry is enabled and attempts remain: retries made so far < maxRetries
RetryEnabledWithBudget(c) == config.enableRetry /\ attempt[c] < config.maxRetries

\* a non-2xx response whose body is a well-formed error envelope
CarriesErrorEnvelope(response) ==
    /\ ~Ok(response)
    /\ Has(response.body, "json")
    /\ Has(response.body.json, "error")
    /\ Has(response.body.json, "meta")

IsRateLimitResponse(response) ==
    \/ response.status = 429
    \/ /\ Has(response.body, "json")
       /\ Has(response.body.json, "error")
       /\ response.body.json.error.code = "RATE_LIMIT_EXCEEDED"

(***************************************************************************)
(* C1.  A response with a status in 200-299 whose body parses makes        *)
(* request() resolve to exactly the parsed envelope, on whichever attempt  *)
(* it arrives.                                                             *)
(***************************************************************************)
C1_SuccessReturnsParsedEnvelope ==
    \A c \in Calls :
        (/\ GotResponse(c)
         /\ LastResponse(c).status \in 200..299
         /\ Has(LastResponse(c).body, "json"))
        => /\ pc[c] = "resolved"
           /\ result[c] = LastResponse(c).body.json

C1_Witness ==
    \E c \in Calls :
        /\ pc[c] = "resolved"
        /\ attempt[c] >= 1
        /\ LastResponse(c).status = 299
        /\ result[c] = SuccessEnvelope(<<"Twijn">>, "req-123")

(***************************************************************************)
(* C2.  Every call whose final attempt received a non-2xx response rejects *)
(* with a KrawletError, whatever the body of that response is.             *)
(***************************************************************************)
C2_NonOkRejectsWithKrawletError ==
    \A c \in Calls :
        (pc[c] = "rejected" /\ GotResponse(c) /\ ~(LastResponse(c).status \in 200..299))
        => (Has(result[c], "name") /\ result[c].name = "KrawletError")

(***************************************************************************)
(* C3.  The KrawletError raised for a non-2xx response that carries a      *)
(* parseable error envelope has the envelope's error.code, error.message,  *)
(* meta.requestId and error.details, and the response's HTTP status; for   *)
(* 404 with SHOP_NOT_FOUND it is a client error and no rate-limit error.   *)
(***************************************************************************)
C3_ErrorBuiltFromEnvelope ==
    \A c \in Calls :
        (GotResponse(c) /\ CarriesErrorEnvelope(LastResponse(c)))
        => LET env == LastResponse(c).body.json
               e == lastError[c]
           IN  /\ Has(e, "name") /\ e.name = "KrawletError"
               /\ e.code = env.error.code
               /\ e.message = env.error.message
               /\ e.statusCode = LastResponse(c).status
               /\ Has(e, "requestId") /\ e.requestId = env.meta.requestId
               /\ Has(e, "details") = Has(env.error, "details")
               /\ Has(e, "details") => e.details = env.error.details
               /\ (LastResponse(c).status = 404 /\ env.error.code = "SHOP_NOT_FOUND")
                  => /\ e.code = "SHOP_NOT_FOUND" /\ e.statusCode = 404
                     /\ isClientError(e) /\ ~isRateLimitError(e)

C3_Witness ==
    \E c \in Calls :
        /\ pc[c] = "rejected"
        /\ GotResponse(c)
        /\ LastResponse(c).status = 404
        /\ IsKrawletError(result[c])
        /\ result[c].code = "SHOP_NOT_FOUND"
        /\ result[c].message = "Shop not found"
        /\ result[c].requestId = "req-127"

(***************************************************************************)
(* C4.  A 4xx response that is no rate-limit error (status not 429, code   *)
(* not RATE_LIMIT_EXCEEDED) ends the call at once: the call rejects, no    *)
(* backoff sleep and no further network attempt follow it, so a call whose *)
(* first response is such a response makes exactly one attempt, whatever   *)
(* enableRetry and maxRetries are.                                         *)
(***************************************************************************)
C4_ClientErrorNotRetried ==
    \A c \in Calls :
        (/\ GotResponse(c)
         /\ LastResponse(c).status \in 400..499
         /\ ~IsRateLimitResponse(LastResponse(c)))
        => /\ pc[c] = "rejected"
           /\ fetchCount[c] = attempt[c] + 1
           /\ Len(sleeps[c]) = attempt[c]
           /\ (attempt[c] = 0 => fetchCount[c] = 1 /\ sleeps[c] = <<>>)

C4_Witness ==
    \E c \in Calls :
        /\ pc[c] = "rejected"
        /\ GotResponse(c)
        /\ LastResponse(c).status = 400
        /\ result[c].message = "Shop not found"
        /\ config.enableRetry /\ config.maxRetries = 3
        /\ fetchCount[c] = 1

(***************************************************************************)
(* C5.  A rate-limit error (a KrawletError with statusCode 429 or code     *)
(* RATE_LIMIT_EXCEEDED) is never the rejection of a call while retry is    *)
(* enabled and attempts remain: the call sleeps the backoff delay and      *)
(* fetches again, 429 being a 4xx status notwithstanding.                  *)
(***************************************************************************)
IsRateLimitKrawletError(e) ==
    /\ Has(e, "name") /\ e.name = "KrawletError"
    /\ (e.statusCode = 429 \/ e.code = "RATE_LIMIT_EXCEEDED")

C6_ServerErrorAlwaysRetried ==
    \A c \in Calls :
        (GotResponse(c) /\ LastResponse(c).status >= 500 /\ RetryEnabledWithBudget(c))
        => pc[c] # "rejected"

(***************************************************************************)
(* C7.  A network attempt that fails without an HTTP response (a timeout   *)
(* abort or any network-level failure, whatever its message) is retried    *)
(* whenever retry is enabled and attempts remain.                          *)
(***************************************************************************)
C7_TransportFailureAlwaysRetried ==
    \A c \in Calls :
        (GotFailure(c) /\ RetryEnabledWithBudget(c)) => pc[c] # "rejected"

(***************************************************************************)
(* C8.  No call makes more network attempts than 1 + maxRetries when retry *)
(* is enabled, maxRetries being the value the caller configured (0         *)
(* included, the default 3 when the caller configured none), and no more   *)
(* than 1 when retry is disabled.                                          *)
(***************************************************************************)
ConfiguredMaxRetries ==
    IF Has(userConfig, "maxRetries") THEN userConfig.maxRetries
    ELSE DefaultMaxRetries

ConfiguredRetryEnabled ==
    ~(Has(userConfig, "enableRetry") /\ ~userConfig.enableRetry)

C8_AttemptsWithinConfiguredBudget ==
    \A c \in Calls :
        fetchCount[c] <= IF ConfiguredRetryEnabled THEN 1 + ConfiguredMaxRetries ELSE 1

(***************************************************************************)
(* C9.  When attempt k of a call returns a 2xx response after attempts     *)
(* 1..k-1 failed retryably, the call resolves to the envelope of attempt k *)
(* and exactly k network attempts were made, one backoff sleep before each *)
(* retry; a 500 followed by a 200 gives the 200 envelope after 2 attempts. *)
(***************************************************************************)
C9_SuccessAfterRetries ==
    \A c \in Calls :
        (/\ GotResponse(c)
         /\ LastResponse(c).status \in 200..299
         /\ Has(LastResponse(c).body, "json"))
        => /\ pc[c] = "resolved"
           /\ result[c] = LastResponse(c).body.json
           /\ fetchCount[c] = attempt[c] + 1
           /\ Len(sleeps[c]) = fetchCount[c] - 1
           /\ fetchCount[c] <= maxAttempts[c]

C9_Witness ==
    \E c \in Calls :
        /\ pc[c] = "resolved"
        /\ fetchCount[c] = 2
        /\ IsKrawletError(lastError[c])
        /\ lastError[c].statusCode = 500
        /\ lastError[c].code = "INTERNAL_ERROR"
        /\ LastResponse(c).status = 200
        /\ result[c] = SuccessEnvelope(<<>>, "req-129")

(***************************************************************************)
(* C10.  A call that makes n network attempts sleeps exactly n-1 times,    *)
(* once before each retry and not after the final attempt; the sleep after *)
(* the attempt with index a lasts retryDelay * 2^a ms, so the delays       *)
(* double starting from the base delay.                                    *)
(***************************************************************************)
C10_ExponentialBackoff ==
    \A c \in Calls :
        /\ \A i \in 1..Len(sleeps[c]) : sleeps[c][i] = config.retryDelay * 2 ^ (i - 1)
        /\ \A i \in 1..(Len(sleeps[c]) - 1) : sleeps[c][i + 1] = 2 * sleeps[c][i]
        /\ (pc[c] = "sleeping" => Len(sleeps[c]) = fetchCount[c])
        /\ (pc[c] \in {"inflight", "resolved"} => Len(sleeps[c]) = fetchCount[c] - 1)
        /\ (pc[c] = "rejected" /\ fetchCount[c] > 0
              => Len(sleeps[c]) = fetchCount[c] - 1)
        /\ (fetchCount[c] = 0 => sleeps[c] = <<>>)

C10_Witness ==
    \E c \in Calls :
        /\ pc[c] = "rejected"
        /\ fetchCount[c] = 4
        /\ sleeps[c] = <<1000, 2000, 4000>>

(***************************************************************************)
(* Vocabulary of the rate-limit properties: the integer a header text      *)
(* denotes, as a table over the texts the server sends.                    *)
(***************************************************************************)
HeaderInteger(text) ==
    CASE text = "0" -> <<0>>
      [] text = "19" -> <<19>>
      [] text = "20" -> <<20>>
      [] text = "30" -> <<30>>
      [] text = "42" -> <<42>>
      [] text = "60" -> <<60>>
      [] text = "99" -> <<99>>
      [] text = "100" -> <<100>>
      [] text = "1768867200" -> <<1768867200>>
      [] text = "1768870800" -> <<1768870800>>
      [] text = "1768874400" -> <<1768874400>>
      [] text = "1768878000" -> <<1768878000>>
      [] OTHER -> <<>>

\* all three rate-limit headers are there and denote integers
HasIntegerRateLimit(response) ==
    \A h \in RateLimitHeaderNames :
        Has(response.headers, h) /\ HeaderInteger(response.headers[h]) # <<>>

\* the step in which call c processes the response to its attempt in flight
ProcessesResponse(c) ==
    pc[c] = "inflight" /\ pc'[c] # "inflight" /\ Has(lastFetch'[c], "response")

(***************************************************************************)
(* C11.  In the step in which request processes a response, 2xx or not and *)
(* on any attempt, that carries X-RateLimit-Limit, X-RateLimit-Remaining   *)
(* and X-RateLimit-Reset with integer values, getRateLimit() becomes       *)
(* exactly {limit, remaining, reset} of that response, also when the call  *)
(* rejects in that step.                                                   *)
(***************************************************************************)
C11_SnapshotEqualsHeaders ==
    [][\A c \in Calls :
         (ProcessesResponse(c) /\ HasIntegerRateLimit(lastFetch'[c].response))
         => LET h == lastFetch'[c].response.headers
            IN  getRateLimit' =
                  [limit |-> [num |-> HeaderInteger(h["X-RateLimit-Limit"])[1]],
                   remaining |-> [num |-> HeaderInteger(h["X-RateLimit-Remaining"])[1]],
                   reset |-> [num |-> HeaderInteger(h["X-RateLimit-Reset"])[1]]]]_vars

C11_Witness ==
    \E c \in Calls :
        /\ pc[c] = "rejected"
        /\ attempt[c] = 1
        /\ GotResponse(c)
        /\ LastResponse(c).status = 503
        /\ LastResponse(c).headers = RateLimitHeaders("60", "0", "1768870800")
        /\ lastRateLimit = [limit |-> [num |-> 60], remaining |-> [num |-> 0],
                            reset |-> [num |-> 1768870800]]
        /\ observed = lastRateLimit

(***************************************************************************)
(* C12.  A response that lacks one of the three rate-limit headers, or in  *)
(* which one of the three values does not parse as an integer, leaves the  *)
(* stored snapshot as it was before the response; an absent snapshot stays *)
(* absent.                                                                 *)
(***************************************************************************)
C12_MalformedHeadersLeaveSnapshot ==
    [][\A c \in Calls :
         (ProcessesResponse(c) /\ ~HasIntegerRateLimit(lastFetch'[c].response))
         => lastRateLimit' = lastRateLimit]_vars

(***************************************************************************)
(* Vocabulary: the snapshot that the header texts of a response denote,    *)
(* a text that denotes no integer giving NaN.                              *)
(***************************************************************************)
NumberOfText(text) ==
    IF HeaderInteger(text) # <<>> THEN [num |-> HeaderInteger(text)[1]]
    ELSE [nan |-> TRUE]

SnapshotOf(headers) ==
    [limit |-> NumberOfText(headers["X-RateLimit-Limit"]),
     remaining |-> NumberOfText(headers["X-RateLimit-Remaining"]),
     reset |-> NumberOfText(headers["X-RateLimit-Reset"])]

(***************************************************************************)
(* C13.  A step that is no step of a call of request (no call moves, no    *)
(* timer fires) is a read of getRateLimit(): it starts no network attempt  *)
(* and changes nothing of the client or of its calls; the value it returns *)
(* is undefined while the client has processed no response carrying the   *)
(* three headers, and the stored snapshot, that of the latest such         *)
(* response, afterwards.                                                   *)
(***************************************************************************)
C13_GetRateLimitIsPureRead ==
    [][(pc' = pc /\ timers' = timers)
       => /\ UNCHANGED <<userConfig, config, lastRateLimit, attempt, maxAttempts,
                         lastError, fetchCount, sleeps, lastFetch, result,
                         args, built, sent, lastCarried>>
          /\ observed' = lastRateLimit
          /\ (lastCarried = <<>> => observed' = <<>>)
          /\ (lastCarried # <<>> => observed' = SnapshotOf(lastCarried))]_vars

C13_Witness ==
    /\ observed = [limit |-> [num |-> 100], remaining |-> [num |-> 99],
                   reset |-> [num |-> 1768867200]]
    /\ lastRateLimit = observed
    /\ lastCarried = RateLimitHeaders("100", "99", "1768867200")
    /\ \E c \in Calls : pc[c] = "inflight" /\ fetchCount[c] = 2

(***************************************************************************)
(* Vocabulary of the header property, in terms of what the caller passed:  *)
(* the client's default headers, the per-call headers, and the effective   *)
(* API key (a key that is the empty string counts as no key).              *)
(***************************************************************************)
ClientHeaders == IF Has(userConfig, "headers") THEN userConfig.headers ELSE <<>>
CallHeaders(c) ==
    IF Has(args[c].options, "headers") THEN args[c].options.headers ELSE <<>>
CallKeyGiven(c) == Has(args[c].options, "apiKey") /\ args[c].options.apiKey # ""
ClientKeyGiven == Has(userConfig, "apiKey") /\ userConfig.apiKey # ""
EffectiveKeyExists(c) == CallKeyGiven(c) \/ ClientKeyGiven
EffectiveKey(c) ==
    IF CallKeyGiven(c) THEN args[c].options.apiKey ELSE userConfig.apiKey

(***************************************************************************)
(* C14.  The headers of every network attempt are {Content-Type:           *)
(* application/json} overlaid by the client's default headers, overlaid by *)
(* the per-call headers; when an effective API key exists (the per-call    *)
(* key if given, else the client key) Authorization is 'Bearer <key>',     *)
(* whatever Authorization the headers supplied, and never carries the      *)
(* client key when a per-call key is given; without an effective key no    *)
(* Authorization is added.                                                 *)
(***************************************************************************)
C14_HeadersOfEveryAttempt ==
    \A c \in Calls :
        fetchCount[c] > 0 =>
        LET sentHeaders == sent[c].headers
            names == {"Content-Type"} \cup DOMAIN ClientHeaders \cup DOMAIN CallHeaders(c)
        IN  /\ DOMAIN sentHeaders =
                 names \cup (IF EffectiveKeyExists(c) THEN {"Authorization"} ELSE {})
            /\ \A name \in DOMAIN sentHeaders :
                 sentHeaders[name] =
                   IF name = "Authorization" /\ EffectiveKeyExists(c)
                     THEN "Bearer " \o EffectiveKey(c)
                   ELSE IF name \in DOMAIN CallHeaders(c) THEN CallHeaders(c)[name]
                   ELSE IF name \in DOMAIN ClientHeaders THEN ClientHeaders[name]
                   ELSE "application/json"
            /\ (CallKeyGiven(c) /\ ClientKeyGiven)
                 => sentHeaders["Authorization"] # "Bearer " \o userConfig.apiKey

C14_Witness ==
    \E c \in Calls :
        /\ pc[c] = "inflight"
        /\ attempt[c] = 1
        /\ Has(userConfig, "apiKey") /\ userConfig.apiKey = "kraw_client"
        /\ ClientHeaders = ("X-Custom" :> "client") @@ ("Authorization" :> "Basic Y2xpZW50")
        /\ Has(args[c].options, "apiKey") /\ args[c].options.apiKey = "kraw_call"
        /\ sent[c].headers =
             ("Content-Type" :> "application/xml") @@ ("X-Custom" :> "client")
                 @@ ("authorization" :> "lower")
                 @@ ("Authorization" :> "Bearer kraw_call")

(***************************************************************************)
(* Vocabulary of the query-string property: a parser of query strings      *)
(* (split at "&", then at the first "=", "+" read as a space and %XX as    *)
(* the character with that code) and the entries of a params mapping that  *)
(* are not undefined.                                                      *)
(***************************************************************************)
PercentDecoded(hex) ==
    CASE hex = "2B" -> "+"
      [] hex = "25" -> "%"
      [] hex = "26" -> "&"
      [] hex = "3D" -> "="
      [] hex = "3F" -> "?"
      [] hex = "23" -> "#"
      [] hex = "2F" -> "/"
      [] hex = "3A" -> ":"
      [] hex = "2C" -> ","
      [] hex = "20" -> " "
      [] OTHER -> "%" \o hex

RECURSIVE FormDecodeFrom(_, _)
FormDecodeFrom(s, i) ==
    IF i > Len(s) THEN ""
    ELSE IF SubSeq(s, i, i) = "+" THEN " " \o FormDecodeFrom(s, i + 1)
    ELSE IF SubSeq(s, i, i) = "%" /\ i + 2 <= Len(s)
      THEN PercentDecoded(SubSeq(s, i + 1, i + 2)) \o FormDecodeFrom(s, i + 3)
    ELSE SubSeq(s, i, i) \o FormDecodeFrom(s, i + 1)

RECURSIVE SplitAt(_, _)
SplitAt(s, sep) ==
    LET i == IndexOf(s, sep, 1)
    IN  IF i = 0 THEN <<s>>
        ELSE <<SubSeq(s, 1, i - 1)>> \o SplitAt(SubSeq(s, i + 1, Len(s)), sep)

QueryOf(url) ==
    IF IndexOf(url, "?", 1) = 0 THEN ""
    ELSE SubSeq(url, IndexOf(url, "?", 1) + 1, Len(url))

ParsedQuery(url) ==
    IF QueryOf(url) = "" THEN <<>>
    ELSE LET pieces == SplitAt(QueryOf(url), "&")
         IN  [i \in 1..Len(pieces) |->
                LET eq == IndexOf(pieces[i], "=", 1)
                IN  IF eq = 0 THEN <<FormDecodeFrom(pieces[i], 1), "">>
                    ELSE <<FormDecodeFrom(SubSeq(pieces[i], 1, eq - 1), 1),
                           FormDecodeFrom(SubSeq(pieces[i], eq + 1, Len(pieces[i])), 1)>>]

IsDefinedEntry(entry) == entry[2] # <<>>

\* the entries of the params of call c whose value is not undefined, in the
\* iteration order of the mapping, each as <<key, String(value)>>
DefinedEntries(c) ==
    IF ~Has(args[c].options, "params") THEN <<>>
    ELSE LET kept == SelectSeq(args[c].options.params, IsDefinedEntry)
         IN  [i \in 1..Len(kept) |-> <<kept[i][1], StringOf(kept[i][2])>>]

(***************************************************************************)
(* C15.  The query string of the URL of every network attempt, parsed      *)
(* back, gives exactly the entries of params whose value is not undefined, *)
(* each as key and String(value), in the iteration order of the mapping;   *)
(* keys with an undefined value are absent, and in the query string every  *)
(* reserved character of a key or value is encoded.                        *)
(***************************************************************************)
C15_QueryRoundTrip ==
    \A c \in Calls :
        fetchCount[c] > 0 =>
        /\ ParsedQuery(sent[c].url) = DefinedEntries(c)
        /\ Len(SplitAt(sent[c].url, "?")) <= 2
        /\ DefinedEntries(c) # <<>> =>
             /\ Len(SplitAt(QueryOf(sent[c].url), "&")) = Len(DefinedEntries(c))
             /\ \A piece \in { SplitAt(QueryOf(sent[c].url), "&")[i] :
                                 i \in 1..Len(DefinedEntries(c)) } :
                  /\ Len(SplitAt(piece, "=")) = 2
                  /\ ~Includes(piece, " ") /\ ~Includes(piece, "#")

C15_Witness ==
    \E c \in Calls :
        /\ pc[c] = "resolved"
        /\ Has(args[c].options, "params")
        /\ args[c].options.params =
             << <<"a b", [str |-> "x&y"]>>, <<"n", [num |-> 0 - 5]>>, <<"u", <<>>>>,
                <<"t", [bool |-> TRUE]>> >>
        /\ sent[c].url = "https://api.krawlet.cc/v1/shops?a+b=x%26y&n=-5&t=true"
        /\ ParsedQuery(sent[c].url) = << <<"a b", "x&y">>, <<"n", "-5">>, <<"t", "true">> >>

(***************************************************************************)
(* C16.  With several calls of one client in flight at once, after any     *)
(* interleaving of their steps the stored snapshot is the one denoted by   *)
(* the headers of the response processed last among those carrying all    *)
(* three headers, whichever call it answered and whichever call started    *)
(* first; limit, remaining and reset always stem from one response, never  *)
(* from several.                                                           *)
(***************************************************************************)
C16_LastWriteWins ==
    /\ (lastCarried = <<>> => lastRateLimit = <<>>)
    /\ (lastCarried # <<>> => lastRateLimit = SnapshotOf(lastCarried))
    /\ lastRateLimit # <<>> =>
         \E response \in RateLimitResponses :
            /\ CarriesRateLimit(response)
            /\ lastRateLimit = SnapshotOf(response.headers)

C16_Witness ==
    /\ pc[1] = "inflight" /\ attempt[1] = 1
    /\ GotResponse(1)
    /\ LastResponse(1).headers = RateLimitHeaders("100", "99", "1768867200")
    /\ pc[2] = "resolved"
    /\ LastResponse(2).headers = RateLimitHeaders("60", "0", "1768870800")
    /\ lastCarried = RateLimitHeaders("60", "0", "1768870800")
    /\ lastRateLimit = [limit |-> [num |-> 60], remaining |-> [num |-> 0],
                        reset |-> [num |-> 1768870800]]

(***************************************************************************)
(* Vocabulary: everything a call of request owns.                          *)
(***************************************************************************)
CallState(c) ==
    <<pc[c], attempt[c], maxAttempts[c], lastError[c], timers[c], fetchCount[c],
      sleeps[c], lastFetch[c], result[c], built[c], sent[c]>>

\* attempts, sleeps and outcome of call c as its own responses and failures
\* determine them, for a client with retry enabled
CallFollowsOwnHistory(c) ==
    /\ pc[c] # "idle" => fetchCount[c] = attempt[c] + 1
    /\ fetchCount[c] <= 1 + config.maxRetries
    /\ Len(sleeps[c]) = attempt[c] + (IF pc[c] = "sleeping" THEN 1 ELSE 0)
    /\ \A i \in 1..Len(sleeps[c]) : sleeps[c][i] = config.retryDelay * 2 ^ (i - 1)
    /\ pc[c] = "resolved" =>
         /\ GotResponse(c) /\ LastResponse(c).status \in 200..299
         /\ result[c] = LastResponse(c).body.json
    /\ pc[c] = "rejected" =>
         /\ result[c] = lastError[c]
         /\ GotResponse(c) => ~(LastResponse(c).status \in 200..299)
         /\ GotFailure(c) => result[c] = lastFetch[c].error
    /\ pc[c] = "sleeping" => lastFetch[c] # <<>> /\ lastError[c] # <<>>

(***************************************************************************)
(* C17.  Concurrent calls on one client are independent: a step of one     *)
(* call changes nothing that another call owns (attempt counter, retry     *)
(* budget, timers, sleeps, outcome) and nothing of the client but the      *)
(* rate-limit snapshot, and under every interleaving the attempts, the     *)
(* backoff sleeps and the outcome of each call follow from the responses   *)
(* and failures of that call alone.                                        *)
(***************************************************************************)
C17_ConcurrentCallsIndependent ==
    [][/\ \A c \in Calls :
            CallState(c)' # CallState(c)
            => /\ \A d \in Calls \ {c} : CallState(d)' = CallState(d)
               /\ UNCHANGED <<userConfig, config, args>>
       /\ \A c \in Calls : CallFollowsOwnHistory(c)']_vars

C17_Witness ==
    /\ pc[1] = "sleeping" /\ attempt[1] = 0 /\ fetchCount[1] = 1
    /\ sleeps[1] = <<1000>>
    /\ pc[2] = "inflight" /\ attempt[2] = 1 /\ fetchCount[2] = 2
    /\ GotFailure(2)
    /\ maxAttempts = <<2, 2>>

(***************************************************************************)
(* Vocabulary: the most recent attempt of call c failed, and e is the      *)
(* error of that attempt.                                                  *)
(***************************************************************************)
LastAttemptFailed(c) ==
    \/ GotFailure(c)
    \/ /\ GotResponse(c)
       /\ ~(LastResponse(c).status \in 200..299 /\ Has(LastResponse(c).body, "json"))

IsErrorOfLastAttempt(c, e) ==
    /\ GotFailure(c) => e = lastFetch[c].error
    /\ GotResponse(c) =>
         /\ Has(e, "name") /\ e.name \in {"KrawletError", "TypeError", "SyntaxError"}
         /\ e.name = "KrawletError" =>
              /\ e.statusCode = LastResponse(c).status
              /\ ~(e.statusCode \in 200..299)
         /\ e.name = "SyntaxError" => LastResponse(c).status \in 200..299
         /\ CarriesErrorEnvelope(LastResponse(c)) =>
              /\ e.name = "KrawletError"
              /\ e.code = LastResponse(c).body.json.error.code
              /\ e.message = LastResponse(c).body.json.error.message

(***************************************************************************)
(* C18.  A call whose attempts are over without success has rejected, and  *)
(* what it rejects with is the error of its final attempt, not that of an  *)
(* earlier attempt; a call resolves only if its final attempt returned a   *)
(* 2xx response, with the envelope of that response and none of the errors *)
(* of its earlier attempts.                                                *)
(***************************************************************************)
C18_RejectsWithFinalAttemptError ==
    \A c \in Calls :
        /\ (LastAttemptFailed(c) /\ pc[c] \notin {"inflight", "sleeping"})
             => pc[c] = "rejected"
        /\ (pc[c] = "rejected" /\ fetchCount[c] > 0)
             => /\ LastAttemptFailed(c)
                /\ result[c] = lastError[c]
                /\ IsErrorOfLastAttempt(c, result[c])
        /\ pc[c] = "resolved"
             => /\ GotResponse(c)
                /\ LastResponse(c).status \in 200..299
                /\ result[c] = LastResponse(c).body.json
                /\ result[c] # lastError[c]
                /\ ~Has(result[c], "name")

C18_Witness ==
    \E c \in Calls :
        /\ pc[c] = "rejected"
        /\ fetchCount[c] = 2
        /\ sleeps[c] = <<1000>>
        /\ GotResponse(c)
        /\ LastResponse(c).status = 404
        /\ IsKrawletError(result[c])
        /\ result[c].statusCode = 404
        /\ result[c].code = "SHOP_NOT_FOUND"

(***************************************************************************)
(* C19.  The error raised for a non-2xx response whose body is no JSON is  *)
(* a KrawletError with code UNKNOWN_ERROR, the HTTP status as statusCode,  *)
(* the message 'HTTP <status>: <statusText>', and no requestId, details or *)
(* response envelope.                                                      *)
(***************************************************************************)
C19_UnparseableErrorBody ==
    \A c \in Calls :
        (/\ GotResponse(c)
         /\ ~(LastResponse(c).status \in 200..299)
         /\ ~Has(LastResponse(c).body, "json"))
        => LET e == lastError[c]
               status == LastResponse(c).status
           IN  /\ Has(e, "name") /\ e.name = "KrawletError"
               /\ e.code = "UNKNOWN_ERROR"
               /\ e.statusCode = status
               /\ e.message = "HTTP " \o ToString(status) \o ": "
                                  \o LastResponse(c).statusText
               /\ (status = 404 => e.message = "HTTP 404: Not Found")
               /\ (status = 500 => e.message = "HTTP 500: Internal Server Error")
               /\ DOMAIN e = {"name", "message", "code", "statusCode"}

C19_Witness ==
    \E c \in Calls :
        /\ pc[c] = "rejected"
        /\ GotResponse(c)
        /\ LastResponse(c).status = 503
        /\ LastResponse(c).body = [text |-> "<html>Bad Gateway</html>"]
        /\ result[c] = [name |-> "KrawletError", code |-> "UNKNOWN_ERROR",
                        statusCode |-> 503,
                        message |-> "HTTP 503: Service Unavailable"]

(***************************************************************************)
(* C20.  At construction each configuration field the caller sets keeps    *)
(* the caller's value, 0 for timeout, maxRetries or retryDelay included,   *)
(* and each unset field takes its default: timeout 30000 ms, enableRetry   *)
(* true, maxRetries 3, retryDelay 1000 ms, no API key, no extra headers.   *)
(***************************************************************************)
C20_ConstructorKeepsCallerValues ==
    /\ \A f \in {"timeout", "maxRetries", "retryDelay", "enableRetry", "apiKey",
                 "headers"} :
          Has(userConfig, f) => config[f] = userConfig[f]
    /\ ~Has(userConfig, "timeout") => config.timeout = 30000
    /\ ~Has(userConfig, "enableRetry") => config.enableRetry = TRUE
    /\ ~Has(userConfig, "maxRetries") => config.maxRetries = 3
    /\ ~Has(userConfig, "retryDelay") => config.retryDelay = 1000
    /\ ~Has(userConfig, "apiKey") => config.apiKey = ""
    /\ ~Has(userConfig, "headers") => config.headers = <<>>

(***************************************************************************)
(* C21.  For every KrawletError, isClientError() holds exactly when        *)
(* 400 <= statusCode <= 499, isServerError() exactly when statusCode >=    *)
(* 500, isRateLimitError() exactly when statusCode = 429 or code =         *)
(* RATE_LIMIT_EXCEEDED; isClientError() and isServerError() never both     *)
(* hold.                                                                   *)
(***************************************************************************)
C21_ErrorPredicates ==
    \A c \in Calls :
        IsKrawletError(lastError[c]) =>
        LET e == lastError[c]
        IN  /\ isClientError(e) = (e.statusCode \in 400..499)
            /\ isServerError(e) = (e.statusCode >= 500)
            /\ isRateLimitError(e) =
                 (e.statusCode \in {429} \/ e.code \in {"RATE_LIMIT_EXCEEDED"})
            /\ ~(isClientError(e) /\ isServerError(e))
            /\ (e.statusCode = 399 => ~isClientError(e) /\ ~isServerError(e))

C21_Witness ==
    \E c \in Calls :
        /\ pc[c] = "rejected"
        /\ IsKrawletError(result[c])
        /\ result[c].statusCode = 499
        /\ result[c].code = "SHOP_NOT_FOUND"
        /\ isClientError(result[c]) /\ ~isServerError(result[c])
        /\ ~isRateLimitError(result[c])
        /\ fetchCount[c] = 2

(***************************************************************************)
(* Vocabulary: the failures the retry loop may retry, and the states in    *)
(* which a call is over.                                                   *)
(***************************************************************************)
IsRetryable(e) ==
    IF Has(e, "statusCode")
    THEN e.statusCode >= 500 \/ e.statusCode = 429
            \/ e.code = "RATE_LIMIT_EXCEEDED"
    ELSE e.name = "AbortError" \/ Includes(e.message, "fetch")

Settled(c) == pc[c] \in {"resolved", "rejected"}

(***************************************************************************)
(* C22.  A call goes Building -> InFlight -> {Success | Failed}: it leaves *)
(* Building only into a network attempt, it goes from a failed attempt to  *)
(* another attempt (through the backoff sleep) only if the failure is      *)
(* retryable and budget remains, and Success and terminal Failed are       *)
(* absorbing: a settled call makes no further network attempt, sleeps no   *)
(* more and updates the snapshot no more.                                  *)
(***************************************************************************)
C22_CallStateMachine ==
    [][\A c \in Calls :
         /\ pc[c] = "idle" => pc'[c] \in {"idle", "inflight"}
         /\ pc[c] = "inflight" =>
              pc'[c] \in {"inflight", "resolved", "sleeping", "rejected"}
         /\ pc[c] = "sleeping" => pc'[c] \in {"sleeping", "inflight"}
         /\ (pc[c] = "inflight" /\ pc'[c] = "sleeping")
              => /\ IsRetryable(lastError'[c])
                 /\ attempt[c] + 1 < maxAttempts[c]
         /\ (pc[c] # "inflight" /\ pc'[c] = "inflight")
              => fetchCount'[c] = fetchCount[c] + 1
         /\ Settled(c)
              => /\ pc'[c] = pc[c]
                 /\ result'[c] = result[c]
                 /\ fetchCount'[c] = fetchCount[c]
                 /\ sleeps'[c] = sleeps[c]
                 /\ sent'[c] = sent[c]
                 /\ lastRateLimit' = lastRateLimit]_vars

(***************************************************************************)
(* C23.  Provided every network attempt completes or is aborted by its     *)
(* timeout and every backoff sleep ends, every call eventually reaches     *)
(* Success or terminal Failed, and never makes more than 1 + maxRetries    *)
(* attempts (one attempt when retry is disabled): no call retries forever. *)
(***************************************************************************)
C23_EveryCallSettles ==
    /\ [](\A c \in Calls :
            fetchCount[c] <= (IF config.enableRetry THEN 1 + config.maxRetries
                              ELSE 1))
    /\ <>(\A c \in Calls : Settled(c))

C23_Witness ==
    \E c \in Calls :
        /\ pc[c] = "rejected"
        /\ config.enableRetry /\ config.maxRetries = 3
        /\ fetchCount[c] = 4
        /\ Len(sleeps[c]) = 3
        /\ GotFailure(c)

(***************************************************************************)
(* Vocabulary: the steps of the timeout timers of call c.                  *)
(***************************************************************************)
StartsAttempt(c) == pc[c] # "inflight" /\ pc'[c] = "inflight"

\* the timer of the attempt in flight fires and aborts its fetch
AbortsAttempt(c) ==
    /\ pc[c] = "inflight" /\ pc'[c] # "inflight"
    /\ Has(lastFetch'[c], "error") /\ lastFetch'[c].error.name = "AbortError"

\* a timer of call c fires or is cleared
TimerGoes(c) == timers'[c] # timers[c] /\ timers'[c] \subseteq timers[c]

(***************************************************************************)
(* C24.  Each network attempt gets a timer of its own, set to the whole    *)
(* timeout of the client; when it fires, only the attempt in flight is     *)
(* aborted and the abort is a retryable failure: with budget left the call *)
(* sleeps the backoff delay and retries under a fresh timer, without       *)
(* budget it rejects with the abort; a timer that goes during a backoff    *)
(* sleep neither ends nor shortens the sleep.                              *)
(***************************************************************************)
C24_TimeoutPerAttempt ==
    [][\A c \in Calls :
         /\ StartsAttempt(c)
              => /\ timers'[c] \ timers[c] = {[attempt |-> attempt'[c],
                                               ms |-> config.timeout]}
                 /\ timers[c] \subseteq timers'[c]
                 /\ \A t \in timers[c] : t.attempt < attempt'[c]
         /\ AbortsAttempt(c)
              => /\ [attempt |-> attempt[c], ms |-> config.timeout] \in timers[c]
                 /\ timers'[c] = timers[c] \ {[attempt |-> attempt[c],
                                               ms |-> config.timeout]}
                 /\ lastError'[c].name = "AbortError"
                 /\ IsRetryable(lastError'[c])
                 /\ attempt'[c] = attempt[c] /\ fetchCount'[c] = fetchCount[c]
                 /\ IF attempt[c] + 1 < maxAttempts[c]
                    THEN /\ pc'[c] = "sleeping"
                         /\ sleeps'[c] =
                              Append(sleeps[c], config.retryDelay * 2 ^ attempt[c])
                    ELSE /\ pc'[c] = "rejected"
                         /\ result'[c].name = "AbortError"
         /\ (pc[c] = "sleeping" /\ TimerGoes(c))
              => /\ pc'[c] = "sleeping"
                 /\ sleeps'[c] = sleeps[c]
                 /\ attempt'[c] = attempt[c]
         /\ (pc[c] = "inflight" /\ TimerGoes(c)
               /\ [attempt |-> attempt[c], ms |-> config.timeout] \in timers'[c])
              => pc'[c] = "inflight" /\ lastFetch'[c] = lastFetch[c]]_vars

C24_Witness ==
    \E c \in Calls :
        /\ pc[c] = "inflight"
        /\ attempt[c] = 1
        /\ Has(lastError[c], "name") /\ lastError[c].name = "AbortError"
        /\ GotFailure(c) /\ lastFetch[c].error.name = "AbortError"
        /\ sleeps[c] = <<1000>>
        /\ Has(userConfig, "timeout") /\ userConfig.timeout = 5000
        /\ timers[c] = {[attempt |-> 1, ms |-> 5000]}

(***************************************************************************)
(* C25.  request changes no client state but the rate-limit snapshot: in   *)
(* every step of every call, with or without a per-call API key or         *)
(* per-call headers, successful or failing, the configuration (base URL,   *)
(* API key, timeout, default headers, retry flag, max retries, retry       *)
(* delay) stays what it was at construction; and an attempt that ends      *)
(* without a response leaves the snapshot as it was.                       *)
(***************************************************************************)
C25_RequestChangesOnlySnapshot ==
    [][/\ config' = config
       /\ \A f \in {"baseUrl", "apiKey", "timeout", "headers", "enableRetry",
                    "maxRetries", "retryDelay"} : config'[f] = config[f]
       /\ userConfig' = userConfig
       /\ \A c \in Calls :
            (pc[c] = "inflight" /\ pc'[c] # "inflight" /\ Has(lastFetch'[c], "error"))
            => lastRateLimit' = lastRateLimit
       /\ \A c \in Calls : pc'[c] = pc[c] => lastRateLimit' = lastRateLimit]_vars

C25_Witness ==
    \E c \in Calls :
        /\ pc[c] = "rejected"
        /\ GotFailure(c)
        /\ fetchCount[c] = 2
        /\ lastRateLimit = [limit |-> [num |-> 100], remaining |-> [num |-> 0],
                            reset |-> [num |-> 1768867200]]
        /\ Has(args[c].options, "apiKey") /\ args[c].options.apiKey = "kraw_call"
        /\ Has(args[c].options, "headers")
        /\ config.apiKey = "kraw_client"
        /\ config.headers = ("X-Custom" :> "client") @@ ("Authorization" :> "Basic Y2xpZW50")

(***************************************************************************)
(* C26.  A request whose options carry a body sends JSON.stringify(body)   *)
(* as the body of every network attempt, whatever the body is (0, false,   *)
(* the empty string and null included); a request whose options carry no   *)
(* body sends none.                                                        *)
(***************************************************************************)
C26_BodySentAsJson ==
    \A c \in Calls :
        fetchCount[c] > 0 =>
        IF Has(args[c].options, "body")
        THEN /\ Has(sent[c], "body")
             /\ sent[c].body = JsonStringify(args[c].options.body)
             /\ (args[c].options.body = [num |-> 0] => sent[c].body = "0")
             /\ (args[c].options.body = [bool |-> FALSE] => sent[c].body = "false")
             /\ (args[c].options.body = [str |-> ""] => sent[c].body = "\"\"")
             /\ (args[c].options.body = [null |-> TRUE] => sent[c].body = "null")
        ELSE ~Has(sent[c], "body")

(***************************************************************************)
(* C27.  The URL of every network attempt is the configured base URL,      *)
(* followed by the path, followed by the query string, for every base URL, *)
(* one with a path prefix of its own such as http://localhost:3330/api     *)
(* included.                                                               *)
(***************************************************************************)
C27_UrlIsBasePathQuery ==
    \A c \in Calls :
        fetchCount[c] > 0 =>
        /\ sent[c].url =
             userConfig.baseUrl \o args[c].path
                 \o (IF DefinedEntries(c) = <<>> THEN ""
                     ELSE "?" \o QueryOf(sent[c].url))
        /\ ParsedQuery(sent[c].url) = DefinedEntries(c)

(***************************************************************************)
(* C28.  When the body of a 2xx response cannot be parsed as JSON, the     *)
(* call rejects after that attempt with the raw parse error: no backoff    *)
(* sleep and no further attempt follow, even when retry is enabled and     *)
(* budget remains, and the error is no KrawletError.                       *)
(***************************************************************************)
C28_UnparseableSuccessNotRetried ==
    \A c \in Calls :
        (/\ GotResponse(c)
         /\ LastResponse(c).status \in 200..299
         /\ ~Has(LastResponse(c).body, "json"))
        => /\ pc[c] = "rejected"
           /\ Has(result[c], "name") /\ result[c].name = "SyntaxError"
           /\ result[c] = lastError[c]
           /\ fetchCount[c] = attempt[c] + 1
           /\ Len(sleeps[c]) = attempt[c]

(***************************************************************************)
(* C29.  Every call issues at least one network attempt before it settles, *)
(* whatever the configuration (a maxRetries that is zero or negative       *)
(* included), and the fallback error 'Request failed after retries' thrown *)
(* after the retry loop is never the outcome of a call.                    *)
(***************************************************************************)
C29_AtLeastOneAttempt ==
    \A c \in Calls :
        Settled(c)
        => /\ fetchCount[c] >= 1
           /\ lastFetch[c] # <<>>
           /\ result[c] # FallbackError

(***************************************************************************)
(* C30.  When a network attempt has ended, with a response or with a       *)
(* failure, its timeout timer is no longer armed: every armed timer of a   *)
(* call belongs to the attempt that is in flight, so none is armed during  *)
(* a backoff sleep or after the call has settled.                          *)
(***************************************************************************)
C30_NoTimerOutlivesItsAttempt ==
    \A c \in Calls :
        /\ \A t \in timers[c] : pc[c] = "inflight" /\ t.attempt = attempt[c]
        /\ pc[c] \in {"sleeping", "resolved", "rejected"} => timers[c] = {}

=============================================================================
